---- MODULE Spec2Model ----
(***************************************************************************)
(* A model of mosaic's TileSet (src/src/lib.rs): the tile registry, the    *)
(* draw queue and the arithmetic queue_tile performs on i32 and f32.       *)
(*                                                                         *)
(* i32 values are TLA+ integers from I32Min up.  A product of two i32      *)
(* is computed on 16-bit limbs, so that the full 64-bit product, its       *)
(* wrapped low 32 bits and the overflow condition are all available        *)
(* without leaving the integers the model checker can represent.           *)
(*                                                                         *)
(* An f32 is a record [cls, m, e]:                                         *)
(*   cls = "fin": the number m * 2^e, with m = 0 /\ e = 0 for zero and     *)
(*                2^23 <= |m| < 2^24 otherwise (a normal number);          *)
(*   cls = "inf": an infinity of sign m (1 or -1);                         *)
(*   cls = "nan": a NaN.                                                   *)
(* The sign of zero is not kept (0.0 and -0.0 compare equal in Rust).      *)
(* Every value the program computes lies between 2^-31 and 2^31 in         *)
(* magnitude, is zero, or is not finite, so subnormals and exponent        *)
(* overflow do not arise.                                                  *)
(***************************************************************************)
EXTENDS Integers, Sequences, FiniteSets, TLC

\* ------------------------------------------------------------------ i32

I32Min == (-(2^30)) * 2
Limb == 2^16
HalfLimb == 2^15
Byte == 2^8

Abs(n) == IF n < 0 THEN -n ELSE n
Sgn(n) == IF n < 0 THEN -1 ELSE 1

\* The product of two 16-bit naturals as <<high 16 bits, low 16 bits>>.
Mul16(u, v) ==
    LET p0 == u * (v % Byte)
        p1 == u * (v \div Byte)
        s  == p0 + (p1 % Byte) * Byte
    IN  <<(s \div Limb) + (p1 \div Byte), s % Limb>>

\* The mathematical product a * b of two i32 as <<d2, d1, d0>>, standing for
\* d2 * 2^32 + d1 * 2^16 + d0 with 0 <= d1, d0 < 2^16 and d2 signed.
MulWide(a, b) ==
    LET ah == a \div Limb
        al == a % Limb
        bh == b \div Limb
        bl == b % Limb
        t0 == Mul16(al, bl)
        m1 == ah * bl
        m2 == al * bh
        d1 == t0[1] + (m1 % Limb) + (m2 % Limb)
    IN  <<ah * bh + (m1 \div Limb) + (m2 \div Limb) + (d1 \div Limb),
          d1 % Limb, t0[2]>>

\* The i32 whose two's-complement bits are the low 32 bits of a wide product.
LowI32(w) ==
    IF w[2] >= HalfLimb THEN (w[2] - Limb) * Limb + w[3] ELSE w[2] * Limb + w[3]

\* The wide form of an i32 (sign-extended).
WideOfI32(n) == <<IF n < 0 THEN -1 ELSE 0, (n \div Limb) % Limb, n % Limb>>

\* i32 `*` overflows: the product is not an i32.
MulOverflows(a, b) == MulWide(a, b) # WideOfI32(LowI32(MulWide(a, b)))

\* i32 `*` in a build without overflow checks (two's-complement wrap).
WrappingMul(a, b) == LowI32(MulWide(a, b))

\* i32 `/` for a non-negative dividend and a positive divisor.
I32Div(a, b) == a \div b

\* ------------------------------------------------------------------ f32

Two23 == 2^23
Two24 == 2^24
Two12 == 2^12

F32Zero == [cls |-> "fin", m |-> 0, e |-> 0]
F32NaN == [cls |-> "nan", m |-> 0, e |-> 0]
F32Inf(s) == [cls |-> "inf", m |-> s, e |-> 0]
F32One == [cls |-> "fin", m |-> Two23, e |-> -23]
F32Two == [cls |-> "fin", m |-> Two23, e |-> -22]
IsZero(f) == f.cls = "fin" /\ f.m = 0

\* Round to nearest, ties to even: q is the 24-bit significand, rb the first
\* bit dropped, sticky whether any later bit dropped is set.
RoundPack(s, q, rb, sticky, e) ==
    LET up == rb /\ (sticky \/ q % 2 = 1)
        q2 == IF up THEN q + 1 ELSE q
    IN  IF q2 = Two24
        THEN [cls |-> "fin", m |-> s * Two23, e |-> e + 1]
        ELSE [cls |-> "fin", m |-> s * q2, e |-> e]

RECURSIVE NormUp(_, _)
NormUp(m, e) == IF m >= Two23 THEN <<m, e>> ELSE NormUp(2 * m, e - 1)

RECURSIVE ShiftFor(_, _)
ShiftFor(a, k) == IF a \div (2^k) < Two24 THEN k ELSE ShiftFor(a, k + 1)

\* `n as f32` for an i32 n.
I32ToF32(n) ==
    IF n = 0 THEN F32Zero
    ELSE IF n = I32Min THEN [cls |-> "fin", m |-> -Two23, e |-> 8]
    ELSE LET a == Abs(n) IN
         IF a < Two24
         THEN LET p == NormUp(a, 0)
              IN  [cls |-> "fin", m |-> Sgn(n) * p[1], e |-> p[2]]
         ELSE LET k   == ShiftFor(a, 1)
                  ulp == 2^k
                  r   == a % ulp
              IN  RoundPack(Sgn(n), a \div ulp, r >= ulp \div 2,
                            r % (ulp \div 2) # 0, k)

\* n quotient bits of r / d by shift and subtract, r < d: <<quotient, rest>>.
RECURSIVE LongDiv(_, _, _, _)
LongDiv(r, d, n, q) ==
    IF n = 0 THEN <<q, r>>
    ELSE IF 2 * r >= d THEN LongDiv(2 * r - d, d, n - 1, 2 * q + 1)
    ELSE LongDiv(2 * r, d, n - 1, 2 * q)

\* f32 `/`.
F32Div(a, b) ==
    IF a.cls = "nan" \/ b.cls = "nan" THEN F32NaN
    ELSE IF a.cls = "inf"
         THEN IF b.cls = "inf" THEN F32NaN ELSE F32Inf(a.m * Sgn(b.m))
    ELSE IF b.cls = "inf" THEN F32Zero
    ELSE IF IsZero(b) THEN IF IsZero(a) THEN F32NaN ELSE F32Inf(Sgn(a.m))
    ELSE IF IsZero(a) THEN F32Zero
    ELSE LET ma == Abs(a.m)
             mb == Abs(b.m)
             s  == Sgn(a.m) * Sgn(b.m)
             ge == ma >= mb
             qr == IF ge THEN LongDiv(ma - mb, mb, 23, 1)
                         ELSE LongDiv(ma, mb, 24, 0)
             rb == LongDiv(qr[2], mb, 1, 0)
         IN  RoundPack(s, qr[1], rb[1] = 1, rb[2] # 0,
                       a.e - b.e - (IF ge THEN 23 ELSE 24))

\* f32 `*`.
F32Mul(a, b) ==
    IF a.cls = "nan" \/ b.cls = "nan" THEN F32NaN
    ELSE IF a.cls = "inf" \/ b.cls = "inf"
         THEN IF IsZero(a) \/ IsZero(b) THEN F32NaN
              ELSE F32Inf(Sgn(a.m) * Sgn(b.m))
    ELSE IF IsZero(a) \/ IsZero(b) THEN F32Zero
    ELSE LET ma  == Abs(a.m)
             mb  == Abs(b.m)
             s   == Sgn(a.m) * Sgn(b.m)
             a1  == ma \div Two12
             a0  == ma % Two12
             b1  == mb \div Two12
             b0  == mb % Two12
             mid == a1 * b0 + a0 * b1
             los == a0 * b0 + (mid % Two12) * Two12
             lo  == los % Two24
             hi  == a1 * b1 + (mid \div Two12) + (los \div Two24)
         IN  IF hi >= Two23
             THEN RoundPack(s, hi, lo >= Two23, lo % Two23 # 0, a.e + b.e + 24)
             ELSE RoundPack(s, 2 * hi + (lo \div Two23),
                            (lo \div (Two23 \div 2)) % 2 = 1,
                            lo % (Two23 \div 2) # 0, a.e + b.e + 23)

\* -------------------------------------------------------------- TileSet

\* The largest number of queued draw commands the model explores.
MaxQueue == 2

\* Lookup keys (the generic parameter Key).
Keys == {"grass", "rock"}

\* The (tilesheet image, tile size) pairs a TileSet is built from, in pixels
\* (width, height), every tile size > 0 on both axes: the sheet dimensions
\* they give are (4, 2), (0, 3) and (1, 6).
SheetConfigs ==
    {[sheet |-> <<64, 32>>, size |-> <<16, 16>>],
     [sheet |-> <<8, 48>>, size |-> <<16, 16>>],
     [sheet |-> <<8, 48>>, size |-> <<8, 8>>]}

\* Indices offered to register_tile for sheet dimensions sd: the origin, the
\* last column and row the check lets through, a negative column (in the row
\* before the last), and one past the accepted range on each axis.
RegisterInputs(sd) ==
    {<<0, 0>>, sd, <<-1, sd[2] - 1>>, <<sd[1] + 1, 0>>, <<0, sd[2] + 1>>}

\* TileParams, and the `options` arguments offered to queue_tile.
NoOptions == [some |-> FALSE, color |-> "none", scale |-> "none"]
TintedDouble == [some |-> TRUE, color |-> "red", scale |-> <<F32Two, F32Two>>]

\* (draw_location, options) pairs offered to queue_tile; the second has an x
\* whose product with a tile width of 16 is 2^31, one more than an i32 holds
\* (with a tile width of 8 it is 2^30).
QueueInputs ==
    {<<<<2, 3>>, NoOptions>>,
     <<<<2^27, -3>>, TintedDouble>>}

VARIABLES
    tile_size,          \* Vector2<i32>, as <<x, y>>
    tile_cache,         \* HashMap<Key, Point2<i32>>, a function on its keys
    sheet_dimensions,   \* Vector2<i32>, as <<x, y>>
    spritebatch,        \* the SpriteBatch's queued DrawParams, in order
    last,               \* the latest call: its arguments, result and output
    lastOk,             \* history: the index of each key's latest Ok register_tile
    expected            \* history: the successful queue_tile calls since the
                        \* latest clear_queue, as [index, loc, options]

vars == <<tile_size, tile_cache, sheet_dimensions, spritebatch, last, lastOk,
          expected>>

tileSet == <<tile_size, tile_cache, sheet_dimensions, spritebatch>>

EmptyMap == [k \in {} |-> <<0, 0>>]

\* A HashMap::insert that keeps the value of a key already present.
Insert_KeepFirst(cache, key, index) ==
    [k \in DOMAIN cache \cup {key} |->
        IF k \in DOMAIN cache THEN cache[k] ELSE index]

\* HashMap::insert.
Insert(cache, key, index) ==
    [k \in DOMAIN cache \cup {key} |-> IF k = key THEN index ELSE cache[k]]

\* A call record. batch is what a draw handed to the renderer, cleared the
\* number of commands a clear_queue dropped.
Call(op, key, arg, ret, batch, cleared) ==
    [op |-> op, key |-> key, arg |-> arg, ret |-> ret, batch |-> batch,
     cleared |-> cleared]

\* TileSet::new.
New(sheet, size) ==
    /\ tile_size = size
    /\ tile_cache = EmptyMap
    /\ sheet_dimensions = <<I32Div(sheet[1], size[1]), I32Div(sheet[2], size[2])>>
    /\ spritebatch = <<>>

Init ==
    /\ \E c \in SheetConfigs : New(c.sheet, c.size)
    /\ last = Call("new", "none", <<0, 0>>, "Ok", <<>>, 0)
    /\ lastOk = EmptyMap
    /\ expected = <<>>

\* A panic unwinds out of the caller: no further call is made.
Running == last.ret # "panic"

\* The bounds check of register_tile.
OutOfRange(index, sd) == index[1] > sd[1] \/ index[2] > sd[2]

\* A register_tile that inserts before it checks the bounds.
RegisterTile_InsertFirst(key, index) ==
    /\ Running
    /\ tile_cache' = Insert(tile_cache, key, index)
    /\ IF OutOfRange(index, sheet_dimensions)
       THEN /\ last' = Call("register_tile", key, index, "OutOfRange", <<>>, 0)
            /\ UNCHANGED lastOk
       ELSE /\ last' = Call("register_tile", key, index, "Ok", <<>>, 0)
            /\ lastOk' = [k \in DOMAIN lastOk \cup {key} |->
                            IF k = key THEN index ELSE lastOk[k]]
    /\ UNCHANGED <<tile_size, sheet_dimensions, spritebatch, expected>>

\* TileSet::register_tile.
RegisterTile(key, index) ==
    /\ Running
    /\ IF OutOfRange(index, sheet_dimensions)
       THEN /\ last' = Call("register_tile", key, index, "OutOfRange", <<>>, 0)
            /\ UNCHANGED <<tileSet, lastOk>>
       ELSE /\ tile_cache' = Insert(tile_cache, key, index)
            /\ last' = Call("register_tile", key, index, "Ok", <<>>, 0)
            /\ lastOk' = [k \in DOMAIN lastOk \cup {key} |->
                            IF k = key THEN index ELSE lastOk[k]]
            /\ UNCHANGED <<tile_size, sheet_dimensions, spritebatch>>
    /\ UNCHANGED expected

\* A src rectangle that normalises each axis by the other axis's dimension.
SrcRect_AxesSwapped(tile, sd) ==
    LET normal_x == F32Div(F32One, I32ToF32(sd[2]))
        normal_y == F32Div(F32One, I32ToF32(sd[1]))
    IN  <<F32Mul(normal_x, I32ToF32(tile[1])),
          F32Mul(normal_y, I32ToF32(tile[2])), normal_x, normal_y>>

\* The src rectangle of queue_tile: <<x, y, w, h>>.
SrcRect(tile, sd) ==
    LET normal_x == F32Div(F32One, I32ToF32(sd[1]))
        normal_y == F32Div(F32One, I32ToF32(sd[2]))
    IN  <<F32Mul(normal_x, I32ToF32(tile[1])),
          F32Mul(normal_y, I32ToF32(tile[2])), normal_x, normal_y>>

\* The dest point of queue_tile, the products wrapping.
Dest(coords, size) ==
    <<I32ToF32(WrappingMul(coords[1], size[1])),
      I32ToF32(WrappingMul(coords[2], size[2]))>>

\* Whether a product of the dest point overflows i32: a panic in a build with
\* overflow checks, a wrap in one without.
DestOverflows(coords, size) ==
    MulOverflows(coords[1], size[1]) \/ MulOverflows(coords[2], size[2])

\* The DrawParam queue_tile builds.
DrawParamOf(tile, coords, options, size, sd) ==
    [src   |-> SrcRect(tile, sd),
     dest  |-> Dest(coords, size),
     color |-> options.color,
     scale |-> IF options.some THEN options.scale ELSE <<F32One, F32One>>]

\* A SpriteBatch::add that puts the new command first.
Add_Front(batch, param) == <<param>> \o batch

\* SpriteBatch::add.
Add(batch, param) == Append(batch, param)

\* TileSet::queue_tile.
QueueTile(key, draw_location, options) ==
    /\ Running
    /\ IF key \notin DOMAIN tile_cache
       THEN /\ last' = Call("queue_tile", key, draw_location, "TileNotFound", <<>>, 0)
            /\ UNCHANGED <<tileSet, expected>>
       ELSE \/ /\ DestOverflows(draw_location, tile_size)
               /\ last' = Call("queue_tile", key, draw_location, "panic", <<>>, 0)
               /\ UNCHANGED <<tileSet, expected>>
            \/ /\ Len(spritebatch) < MaxQueue
               /\ spritebatch' = Add(spritebatch,
                                     DrawParamOf(tile_cache[key], draw_location,
                                                 options, tile_size,
                                                 sheet_dimensions))
               /\ last' = Call("queue_tile", key, draw_location, "Ok", <<>>, 0)
               /\ expected' = Append(expected, [index |-> tile_cache[key],
                                                loc |-> draw_location,
                                                options |-> options])
               /\ UNCHANGED <<tile_size, tile_cache, sheet_dimensions>>
    /\ UNCHANGED lastOk

\* A SpriteBatch::clear that drops only the latest command.
Clear_DropLast(batch) ==
    IF batch = <<>> THEN <<>> ELSE SubSeq(batch, 1, Len(batch) - 1)

\* SpriteBatch::clear.
Clear(batch) == <<>>

\* TileSet::clear_queue.
ClearQueue ==
    /\ Running
    /\ spritebatch' = Clear(spritebatch)
    /\ last' = Call("clear_queue", "none", <<0, 0>>, "Ok", <<>>, Len(spritebatch))
    /\ expected' = <<>>
    /\ UNCHANGED <<tile_size, tile_cache, sheet_dimensions, lastOk>>

\* What draw hands to the renderer.
Submitted(batch) == batch

\* A draw that empties the queue once the renderer has taken the batch.
Draw_AutoClear ==
    /\ Running
    /\ \E ret \in {"Ok", "RenderError"} :
         last' = Call("draw", "none", <<0, 0>>, ret, Submitted(spritebatch), 0)
    /\ spritebatch' = <<>>
    /\ expected' = <<>>
    /\ UNCHANGED <<tile_size, tile_cache, sheet_dimensions, lastOk>>

\* TileSet::draw: the renderer reports success or failure.
Draw ==
    /\ Running
    /\ \E ret \in {"Ok", "RenderError"} :
         last' = Call("draw", "none", <<0, 0>>, ret, Submitted(spritebatch), 0)
    /\ UNCHANGED <<tileSet, lastOk, expected>>

Next ==
    \/ \E key \in Keys : \E index \in RegisterInputs(sheet_dimensions) :
         RegisterTile(key, index)
    \/ \E key \in Keys : \E in \in QueueInputs : QueueTile(key, in[1], in[2])
    \/ ClearQueue
    \/ Draw

Spec == Init /\ [][Next]_vars

\* --------------------------------------------------------------- claims

\* The latest call was a queue_tile that returned Ok; the command it appended.
QueuedOk == last.op = "queue_tile" /\ last.ret = "Ok"
LastCmd == spritebatch[Len(spritebatch)]

InGrid(index, sd) ==
    /\ 0 <= index[1] /\ index[1] <= sd[1]
    /\ 0 <= index[2] /\ index[2] <= sd[2]

\* C1: register_tile returns Ok if and only if 0 <= x <= sheet_dimensions.x
\* and 0 <= y <= sheet_dimensions.y, and OutOfRange in every other case.
C1_RegisterOkIffInGrid ==
    last.op = "register_tile" =>
        /\ last.ret = "Ok" <=> InGrid(last.arg, sheet_dimensions)
        /\ last.ret # "Ok" => last.ret = "OutOfRange"

\* C2: queue_tile fails with TileNotFound if and only if no earlier
\* register_tile for the key returned Ok, and returns Ok otherwise.
C2_QueueOkIffRegistered ==
    last.op = "queue_tile" =>
        IF last.key \in DOMAIN lastOk
        THEN last.ret = "Ok"
        ELSE last.ret = "TileNotFound"

\* C3: a register_tile that returns OutOfRange, a queue_tile that returns
\* TileNotFound and a draw the renderer fails each leave tile_size, the
\* registry, sheet_dimensions and the draw queue as they were.
C3_FailureChangesNothing ==
    [][last'.ret \in {"OutOfRange", "TileNotFound", "RenderError"}
          => tileSet' = tileSet]_vars

\* C3 witness: an OutOfRange registration of a key that keeps its earlier
\* coordinate, with commands queued.
C3_Witness ==
    /\ last.op = "register_tile" /\ last.ret = "OutOfRange"
    /\ last.key \in DOMAIN tile_cache
    /\ tile_cache[last.key] # last.arg
    /\ Len(spritebatch) > 0

\* C4: the registry maps each key to the index of the latest register_tile
\* for that key that returned Ok, and to nothing else.
C4_LastRegistrationWins == tile_cache = lastOk

\* C4 witness: both keys registered, the latest call a registration that
\* overwrote a key: a queued command was built from an index that no key
\* maps to any more.
C4_Witness ==
    /\ DOMAIN tile_cache = Keys
    /\ last.op = "register_tile" /\ last.ret = "Ok"
    /\ tile_cache[last.key] = last.arg
    /\ \E i \in 1..Len(expected) :
         \A k \in Keys : tile_cache[k] # expected[i].index

\* C5: clear_queue empties the queue and changes nothing else, a second
\* clear_queue changes nothing at all, and a draw right after a clear_queue
\* submits no command.
C5_ClearQueueOnlyEmptiesQueue ==
    [][/\ last'.op = "clear_queue" =>
            /\ spritebatch' = <<>>
            /\ <<tile_size, tile_cache, sheet_dimensions>>' =
                   <<tile_size, tile_cache, sheet_dimensions>>
       /\ (last.op = "clear_queue" /\ last'.op = "clear_queue") =>
            tileSet' = tileSet
       /\ (last.op = "clear_queue" /\ last'.op = "draw") =>
            last'.batch = <<>>]_vars

\* C5 witness: a clear_queue that dropped queued commands of a registered key.
C5_Witness ==
    /\ last.op = "clear_queue" /\ last.cleared = MaxQueue
    /\ DOMAIN tile_cache # {}
    /\ spritebatch = <<>>

\* C6: draw hands the whole queue to the renderer and, whether the renderer
\* succeeds or fails, changes neither the queue nor the registry; a draw
\* right after a draw submits the same commands.
C6_DrawSubmitsAllAndKeepsQueue ==
    [][last'.op = "draw" =>
          /\ tileSet' = tileSet
          /\ last'.batch = spritebatch
          /\ last.op = "draw" => last'.batch = last.batch]_vars

\* C6 witness: a draw of several commands, all still queued afterwards.
C6_Witness ==
    /\ last.op = "draw"
    /\ Len(last.batch) = MaxQueue
    /\ spritebatch = last.batch

\* The integer value of a finite f32 in the wide form of MulWide, or <<>> when
\* the f32 is no integer.
WideOfF32(f) ==
    IF f.cls # "fin" THEN <<>>
    ELSE IF f.e < 0
    THEN IF f.m % (2^(-f.e)) = 0 THEN WideOfI32(f.m \div (2^(-f.e))) ELSE <<>>
    ELSE LET lo == (f.m % Limb) * (2^f.e)
             hi == (f.m \div Limb) * (2^f.e) + (lo \div Limb)
         IN  <<hi \div Limb, hi % Limb, lo % Limb>>

\* C7: the command a successful queue_tile appends has the destination
\* (loc.x * tile_w, loc.y * tile_h), the products taken in the integers.
C7_DestIsExactProduct ==
    QueuedOk =>
        /\ WideOfF32(LastCmd.dest[1]) = MulWide(last.arg[1], tile_size[1])
        /\ WideOfF32(LastCmd.dest[2]) = MulWide(last.arg[2], tile_size[2])

\* f32 `==`: a NaN equals nothing.
F32Eq(a, b) == a.cls # "nan" /\ b.cls # "nan" /\ a = b

RECURSIVE Strip(_, _)
Strip(m, e) == IF m # 0 /\ m % 2 = 0 THEN Strip(m \div 2, e + 1) ELSE <<m, e>>

\* The f32 f is the rational x / n exactly (n > 0).
F32EqRational(f, x, n) ==
    /\ f.cls = "fin"
    /\ IF f.m = 0 THEN x = 0
       ELSE LET p == Strip(f.m, f.e) IN
            IF p[2] >= 0
            THEN x % n = 0 /\ x # 0 /\ Strip(x \div n, 0) = p
            ELSE /\ -p[2] <= 30
                 /\ n % (2^(-p[2])) = 0
                 /\ x % (n \div (2^(-p[2]))) = 0
                 /\ x \div (n \div (2^(-p[2]))) = p[1]

\* The f32 f is within a relative error of 2^-21 of x / n (n > 0, |x / n| < 2^23).
F32NearRational(f, x, n) ==
    /\ f.cls = "fin"
    /\ IF x = 0 THEN f.m = 0
       ELSE /\ f.m # 0 /\ Sgn(f.m) = Sgn(x) /\ f.e < 0
            /\ LET scaled == Abs(x) * (2^(-f.e))
               IN  Abs(Abs(f.m) * n - scaled) <= scaled \div (2^21)

IsPowerOfTwo(n) == \E k \in 0..30 : n = 2^k

\* C8 as stated: the source rectangle of the appended command is
\* (x / sd.x, y / sd.y, 1 / sd.x, 1 / sd.y), each quotient the f32 nearest to
\* it, for every accepted index and every sheet_dimensions.
C8_SrcRectIsQuotient ==
    QueuedOk =>
        LET tile == tile_cache[last.key]
            sd   == sheet_dimensions
        IN  \A a \in {1, 2} :
              /\ F32Eq(LastCmd.src[a], F32Div(I32ToF32(tile[a]), I32ToF32(sd[a])))
              /\ F32Eq(LastCmd.src[a + 2], F32Div(F32One, I32ToF32(sd[a])))

\* C8 amended: on an axis whose sheet dimension is a power of two the source
\* position and extent are x / sd and 1 / sd exactly (|x| <= 2^24); on an
\* axis with any other positive dimension they are within a relative error
\* of 2^-21 of them; on an axis whose dimension is zero the extent is
\* +infinity and the position NaN for index 0 and an infinity of the index's
\* sign otherwise.
C8_SrcRectAmended ==
    QueuedOk =>
        LET tile == tile_cache[last.key]
            sd   == sheet_dimensions
        IN  \A a \in {1, 2} :
              /\ (IsPowerOfTwo(sd[a]) /\ Abs(tile[a]) <= Two24) =>
                    /\ F32EqRational(LastCmd.src[a], tile[a], sd[a])
                    /\ F32EqRational(LastCmd.src[a + 2], 1, sd[a])
              /\ sd[a] > 0 =>
                    /\ F32NearRational(LastCmd.src[a], tile[a], sd[a])
                    /\ F32NearRational(LastCmd.src[a + 2], 1, sd[a])
              /\ sd[a] = 0 =>
                    /\ LastCmd.src[a + 2] = F32Inf(1)
                    /\ LastCmd.src[a] =
                          IF tile[a] = 0 THEN F32NaN ELSE F32Inf(Sgn(tile[a]))

\* C8 witness: sheet 64x32 with 16x16 tiles and index (0, 0) gives the source
\* rectangle (0, 0, 0.25, 0.5).
C8_Witness ==
    /\ QueuedOk
    /\ sheet_dimensions = <<4, 2>>
    /\ tile_cache[last.key] = <<0, 0>>
    /\ LastCmd.src = <<F32Zero, F32Zero,
                       [cls |-> "fin", m |-> Two23, e |-> -25],
                       [cls |-> "fin", m |-> Two23, e |-> -24]>>

\* C9: every coordinate in the registry satisfies 0 <= col <= sheet_dimensions.x
\* and 0 <= row <= sheet_dimensions.y.
C9_RegistryInGrid ==
    \A k \in DOMAIN tile_cache : InGrid(tile_cache[k], sheet_dimensions)

\* C10: the queue is, in call order, one command per queue_tile that returned
\* Ok since the latest clear_queue (or new), each built from the index its key
\* had when it was queued; a queue_tile that returned Ok left the registry as
\* the registrations made it.
C10_QueueIsCallHistory ==
    /\ QueuedOk => tile_cache = lastOk
    /\ Len(spritebatch) = Len(expected)
    /\ \A i \in 1..Len(expected) :
         spritebatch[i] = DrawParamOf(expected[i].index, expected[i].loc,
                                      expected[i].options, tile_size,
                                      sheet_dimensions)

\* C10 witness: two different commands queued, the first built from an index
\* that its key was registered away from afterwards (no key maps to it now).
C10_Witness ==
    /\ Len(spritebatch) = 2
    /\ spritebatch[1] # spritebatch[2]
    /\ \A k \in DOMAIN tile_cache : tile_cache[k] # expected[1].index

====
